---- MODULE Spec2Model ----
(***************************************************************************)
(* BOAMP data extractor (src/main.py): the job ledger `jobs`, the          *)
(* background task process_extraction with the paginated fetch             *)
(* get_all_records_for_date, the normalizer create_excel_simple, the       *)
(* department matcher filter_by_departments, and the status / download     *)
(* routes that read the ledger while background tasks run.                 *)
(*                                                                         *)
(* Text is a sequence of one-character strings, so that strip, replace and *)
(* split act on characters as the Python string methods do.  A JSON value  *)
(* is a tagged record: Null, Str(v) or List(v).  A dict key that may be    *)
(* missing holds Absent (<<>>) or Present(x) (<<x>>).                       *)
(***************************************************************************)
EXTENDS Integers, Sequences, FiniteSets, TLC

(***************************************************************************)
(* Program constants.                                                      *)
(***************************************************************************)
limit == 100
OffsetCeiling == 10000
max_records_default == 5000

(***************************************************************************)
(* Bounds of the model.                                                    *)
(***************************************************************************)
MaxPageLen == 1
MaxRecordsArg == 2
MaxCatalogLen == 3
WindowLen == 2
MaxUpstreamPages == 2
MaxRows == 3
MaxTokens == 2

(***************************************************************************)
(* Values.                                                                 *)
(***************************************************************************)
Null == [t |-> "null"]
Missing == [t |-> "missing"]
NaN == [t |-> "nan"]
Str(v) == [t |-> "str", v |-> v]
List(v) == [t |-> "list", v |-> v]
Absent == <<>>
Present(x) == <<x>>

D75 == <<"7", "5">>
D92 == <<"9", "2">>

\* Publication dates are 'YYYY-MM-DD' texts compared as texts; the model
\* keeps their order only: 1 < 2 < 3.
Dates == {1, 2, 3}
TargetDates == {2}

\* dateparution of an upstream record: a date, or JSON null.
DateValues == {Str(d) : d \in Dates} \cup {Null}

\* code_departement of an upstream record, in the shapes the catalog uses.
RawCodes == {Null, Str(D92), List(<<D75, D92>>)}

Records == [dateparution : DateValues, code_departement : RawCodes]

\* The departments of a request (List[str]); only membership is used.
DepartmentsArgs == {{D75}, {D92, D75}}
\* max_records is any int of the request body: zero and negative included.
MaxRecordsArgs == (-1)..MaxRecordsArg

JobIds == {1}

\* The identifiers of the two-job specification.
PairIds == {1, 2}

(***************************************************************************)
(* Text helpers (Python str methods).                                      *)
(***************************************************************************)
\* The index of the first character of s not in cs (Len(s) + 1 if none).
FirstNotIn(s, cs) ==
    IF \A i \in 1..Len(s) : s[i] \in cs THEN Len(s) + 1
    ELSE CHOOSE i \in 1..Len(s) : s[i] \notin cs /\ \A m \in 1..(i - 1) : s[m] \in cs

\* The index of the last character of s not in cs (0 if none).
LastNotIn(s, cs) ==
    IF \A i \in 1..Len(s) : s[i] \in cs THEN 0
    ELSE CHOOSE i \in 1..Len(s) : s[i] \notin cs /\ \A m \in (i + 1)..Len(s) : s[m] \in cs

\* s.strip(chars)
StripChars(s, cs) == SubSeq(s, FirstNotIn(s, cs), LastNotIn(s, cs))

Whitespace == {" ", "\t", "\n"}

\* s.strip()
Strip(s) == StripChars(s, Whitespace)

\* s.replace(c, '')
Remove(s, c) == SelectSeq(s, LAMBDA x : x # c)

\* The position of the k-th occurrence of c in s; 0 for k = 0 and
\* Len(s) + 1 past the last occurrence.
Cut(s, c, k) ==
    LET occ == {i \in 1..Len(s) : s[i] = c}
    IN  IF k = 0 THEN 0
        ELSE IF k > Cardinality(occ) THEN Len(s) + 1
        ELSE CHOOSE i \in occ : Cardinality({m \in occ : m < i}) = k - 1

\* s.split(c): the pieces between the occurrences of c, at least one.
Split(s, c) ==
    [k \in 1..(Cardinality({i \in 1..Len(s) : s[i] = c}) + 1) |->
        SubSeq(s, Cut(s, c, k - 1) + 1, Cut(s, c, k) - 1)]

RECURSIVE JoinQuoted(_)
JoinQuoted(toks) ==
    IF toks = <<>> THEN <<>>
    ELSE <<"\"">> \o Head(toks) \o <<"\"">>
         \o (IF Len(toks) > 1 THEN <<",", " ">> ELSE <<>>)
         \o JoinQuoted(Tail(toks))

\* json.dumps(value, ensure_ascii=False) of a list of texts.
JsonDumps(toks) == <<"[">> \o JoinQuoted(toks) \o <<"]">>

(***************************************************************************)
(* create_excel_simple: one row per record, lists serialized, null -> ''.  *)
(* A key missing from a record is NaN in the DataFrame.                    *)
(***************************************************************************)
CleanValue(value) ==
    IF value.t = "list" THEN Str(JsonDumps(value.v))
    ELSE IF value.t = "null" THEN Str(<<>>)
    ELSE IF value.t = "missing" THEN NaN
    ELSE value

CleanRecord(record) ==
    [dateparution |-> CleanValue(record.dateparution),
     code_departement |-> CleanValue(record.code_departement)]

create_excel_simple(records) ==
    [i \in 1..Len(records) |-> CleanRecord(records[i])]

(***************************************************************************)
(* filter_by_departments.                                                  *)
(***************************************************************************)
\* The value of F at the value of e, with e evaluated once.
Bind(e, F(_)) == CHOOSE r \in {F(x) : x \in {e}} : TRUE

\* Mutant of line 140: the pieces are not trimmed.
TokensUntrimmed(cleaned_str) ==
    Bind(Split(cleaned_str, ","), LAMBDA parts :
        SelectSeq(parts, LAMBDA dep : Strip(dep) # <<>>))

\* line 140: the pieces of the cleaned text, trimmed, without the empty ones.
Tokens(cleaned_str) ==
    Bind(Split(cleaned_str, ","), LAMBDA parts :
        SelectSeq([i \in 1..Len(parts) |-> Strip(parts[i])], LAMBDA dep : dep # <<>>))

\* lines 136-145: the token list of a department-code cell.
DepList(code_departement) ==
    IF code_departement.t = "str"
    THEN Bind(Remove(Remove(StripChars(code_departement.v, {"[", "]"}), "\""), "'"),
              LAMBDA cleaned_str : Tokens(cleaned_str))
    ELSE IF code_departement.t = "list" THEN code_departement.v
    ELSE <<>>

\* Mutant of lines 148-152: the scan does not stop at the first match.
FirstMatchLast(dep_list, target_departments) ==
    LET matches == {i \in 1..Len(dep_list) : dep_list[i] \in target_departments}
    IN  IF matches = {} THEN Absent
        ELSE Present(dep_list[CHOOSE i \in matches : \A m \in matches : i >= m])

\* lines 148-152: the first token that is a target department, or Absent.
FirstMatch(dep_list, target_departments) ==
    LET matches == {i \in 1..Len(dep_list) : dep_list[i] \in target_departments}
    IN  IF matches = {} THEN Absent
        ELSE Present(dep_list[CHOOSE i \in matches : \A m \in matches : i <= m])

\* Mutant of lines 129-131: a row without a code matches every target.
DepartementTrouveMatchAll(row, target_departments) ==
    IF row.code_departement.t = "nan" \/ row.code_departement = Str(<<>>)
    THEN Present(CHOOSE dep \in target_departments : TRUE)
    ELSE Bind(DepList(row.code_departement),
              LAMBDA dep_list : FirstMatch(dep_list, target_departments))

\* lines 125-158: departement_trouve of one row.
DepartementTrouve(row, target_departments) ==
    IF row.code_departement.t = "nan" \/ row.code_departement = Str(<<>>)
    THEN Absent
    ELSE Bind(DepList(row.code_departement),
              LAMBDA dep_list : FirstMatch(dep_list, target_departments))

\* Mutant of lines 162-163: the kept rows are taken last first.
filter_by_departmentsReversed(df, target_departments) ==
    Bind([i \in 1..Len(df) |-> DepartementTrouve(df[i], target_departments)],
         LAMBDA departements_trouves :
            Bind(SelectSeq([i \in 1..Len(df) |-> Len(df) + 1 - i],
                           LAMBDA i : departements_trouves[i] # Absent),
                 LAMBDA indices_a_conserver :
                    [n \in 1..Len(indices_a_conserver) |->
                        [dateparution |-> df[indices_a_conserver[n]].dateparution,
                         code_departement |-> df[indices_a_conserver[n]].code_departement,
                         code_departement_trouve |->
                             departements_trouves[indices_a_conserver[n]][1]]]))

\* lines 121-168: the kept rows, in order, each with its matched code.
filter_by_departments(df, target_departments) ==
    Bind([i \in 1..Len(df) |-> DepartementTrouve(df[i], target_departments)],
         LAMBDA departements_trouves :
            Bind(SelectSeq([i \in 1..Len(df) |-> i],
                           LAMBDA i : departements_trouves[i] # Absent),
                 LAMBDA indices_a_conserver :
                    [n \in 1..Len(indices_a_conserver) |->
                        [dateparution |-> df[indices_a_conserver[n]].dateparution,
                         code_departement |-> df[indices_a_conserver[n]].code_departement,
                         code_departement_trouve |->
                             departements_trouves[indices_a_conserver[n]][1]]]))

\* Mutant of line 204: every matched code is counted once.
ValueCountsOnes(df_filtre) ==
    [c \in {df_filtre[i].code_departement_trouve : i \in 1..Len(df_filtre)} |-> 1]

\* line 204: value_counts().to_dict() of the matched-code column.
ValueCounts(df_filtre) ==
    [c \in {df_filtre[i].code_departement_trouve : i \in 1..Len(df_filtre)} |->
        Cardinality({i \in 1..Len(df_filtre) : df_filtre[i].code_departement_trouve = c})]

(***************************************************************************)
(* State.                                                                  *)
(***************************************************************************)
VARIABLES
    jobs,         \* line 39: the ledger, job id -> entry (NoJob: id not in jobs)
    pc,           \* position of each job's background task in process_extraction
    max_records,  \* argument of each job's process_extraction
    all_records,  \* get_all_records_for_date: records accumulated so far
    offset,       \* get_all_records_for_date: offset of the next page request
    stop,         \* get_all_records_for_date: the exit the loop was left by
    df,           \* process_extraction: the full DataFrame
    df_filtered,  \* process_extraction: the filtered DataFrame
    exc,          \* process_extraction: the exception caught at line 211
    upstream,     \* the remote catalog the page requests are sent to
    dl,           \* a download route between its status check and its read
    resp          \* the last response a route returned

vars == <<jobs, pc, max_records, all_records, offset, stop, df, df_filtered,
          exc, upstream, dl, resp>>

NoJob == [status |-> "none"]
NoExc == "none"
Terminal == {"completed", "error"}

\* The f-string messages of lines 174-213 and 223, by their parameters.
Msg(m, n, e) == [m |-> m, n |-> n, e |-> e]
MsgCreated == Msg("Job created, starting processing...", 0, NoExc)
MsgFetching == Msg("Fetching BOAMP records...", 0, NoExc)
MsgNoRecords(target_date) == Msg("No records found for date", target_date, NoExc)
MsgFound(n) == Msg("Found n records. Processing...", n, NoExc)
MsgComplete(n) == Msg("Processing complete. n records after filtering.", n, NoExc)
MsgError(e) == Msg("Error during processing", 0, e)

\* lines 221-228: the entry a submission creates.
NewJob(target_date, departments) ==
    [status |-> "started",
     message |-> MsgCreated,
     target_date |-> target_date,
     departments |-> departments,
     total_records |-> 0,
     filtered_records |-> 0,
     full_df |-> Absent,
     filtered_df |-> Absent,
     department_distribution |-> Absent]

\* Mutant of the ledger writes: the key is written in every entry.
SetFieldAll(j, key, value) ==
    jobs' = [k \in DOMAIN jobs |->
                IF jobs[k] = NoJob THEN NoJob ELSE [jobs[k] EXCEPT ![key] = value]]

\* jobs[job_id][key] = value
SetField(j, key, value) == jobs' = [jobs EXCEPT ![j] = [jobs[j] EXCEPT ![key] = value]]

(***************************************************************************)
(* The remote catalog.  In mode "any" it answers every page request with   *)
(* any page of at most MaxPageLen records.  In mode "short" it does so for *)
(* the first MaxUpstreamPages pages and is exhausted after them.  In mode  *)
(* "catalog" it holds a fixed sequence of records and answers the request  *)
(* at offset k * limit with its k-th window of WindowLen records, empty    *)
(* past the end.  A page of the model stands for a page of at most `limit` *)
(* records: the fetch never compares the length of a page with `limit`.    *)
(***************************************************************************)
RECURSIVE SeqsUpTo(_, _)
SeqsUpTo(S, n) ==
    IF n = 0 THEN {<<>>}
    ELSE LET shorter == SeqsUpTo(S, n - 1)
         IN  shorter \cup {Append(s, x) : s \in {t \in shorter : Len(t) = n - 1}, x \in S}

\* The records the upstream serves: the department codes of a record that
\* is not on a target date are never read (line 69 drops the record), so
\* one such record per date is enough.
UpstreamRecords ==
    {r \in Records : r.dateparution \in {Str(d) : d \in TargetDates}
                         \/ r.code_departement = Null}

Pages == SeqsUpTo(UpstreamRecords, MaxPageLen)

AnyUpstream == [mode |-> "any", catalog |-> <<>>]
ShortUpstream == [mode |-> "short", catalog |-> <<>>]

Min(a, b) == IF a <= b THEN a ELSE b

\* The k-th page (k >= 1) of a catalog.
PageOf(catalog, k) ==
    SubSeq(catalog, (k - 1) * WindowLen + 1, Min(k * WindowLen, Len(catalog)))

\* The index of the page a request at offset `off` asks for.
PageIndex(off) == (off \div limit) + 1

Serve(off) ==
    IF upstream.mode = "any" THEN Pages
    ELSE IF upstream.mode = "short"
    THEN (IF PageIndex(off) <= MaxUpstreamPages THEN Pages ELSE {<<>>})
    ELSE {PageOf(upstream.catalog, PageIndex(off))}

\* order_by=dateparution DESC: every date is present and none is followed
\* by a later one.
SortedDesc(catalog) ==
    /\ \A i \in 1..Len(catalog) : catalog[i].dateparution # Null
    /\ \A i \in 1..(Len(catalog) - 1) :
          catalog[i].dateparution.v >= catalog[i + 1].dateparution.v

CatalogRecords ==
    [dateparution : {Str(d) : d \in Dates},
     code_departement : {Str(D92), List(<<D75, D92>>)}]

\* The catalogs of the fetch specification: sorted as the request asks.
Catalogs == {c \in SeqsUpTo(CatalogRecords, MaxCatalogLen) : SortedDesc(c)}

(***************************************************************************)
(* The shapes the catalog gives a list of department codes: a JSON list,   *)
(* a text that is a list written with double or single quotes, a bare      *)
(* comma-separated text, and the same with blanks around the codes.        *)
(***************************************************************************)
RECURSIVE Joined(_, _, _)
Joined(toks, q, sep) ==
    IF toks = <<>> THEN <<>>
    ELSE q \o Head(toks) \o q
         \o (IF Len(toks) > 1 THEN sep ELSE <<>>)
         \o Joined(Tail(toks), q, sep)

ShapeKinds == <<"list", "double", "single", "bare", "spaced">>

Shape(toks, kind) ==
    CASE kind = "list" -> List(toks)
      [] kind = "double" -> Str(<<"[">> \o Joined(toks, <<"\"">>, <<",">>) \o <<"]">>)
      [] kind = "single" -> Str(<<"[">> \o Joined(toks, <<"'">>, <<",">>) \o <<"]">>)
      [] kind = "bare" -> Str(Joined(toks, <<>>, <<",">>))
      [] kind = "spaced" -> Str(Joined(toks, <<" ">>, <<",">>))

\* The codes of a list: department codes and the empty text.
CodeTokens == {D75, D92, <<>>}
TokenSeqs == SeqsUpTo(CodeTokens, MaxTokens)

\* The records of the department-matching specification: all on the target
\* date, with a null, missing, empty, single or multiple code.
FilterCodes ==
    {Null, Missing, Str(<<>>), Str(D92), List(<<D92, D75>>), Shape(<<D75, D92>>, "single")}

FilterRecords ==
    [dateparution : {Str(d) : d \in TargetDates}, code_departement : FilterCodes]

FilterCatalogs == SeqsUpTo(FilterRecords, MaxRows)

\* Catalogs of records that hold the same codes, one record per shape.
ShapeCatalogs ==
    {[n \in 1..Len(ShapeKinds) |->
         [dateparution |-> Str(d), code_departement |-> Shape(toks, ShapeKinds[n])]] :
        d \in TargetDates, toks \in TokenSeqs}

\* The departments of a request; the empty text is a str like any other.
FilterDepartmentsArgs == {{D75}, {D92, D75}, {<<>>, D75}}

(***************************************************************************)
(* get_all_records_for_date, lines 49-88: one action per loop iteration.   *)
(***************************************************************************)
\* Mutant of line 69: records on or after the target date are kept.
TargetRecordsFrom(records, target_date) ==
    SelectSeq(records, LAMBDA record :
        record.dateparution # Null /\ record.dateparution.v >= target_date)

\* line 69: the records of a page published on the target date.
TargetRecords(records, target_date) ==
    SelectSeq(records, LAMBDA record : record.dateparution = Str(target_date))

\* Mutant of line 76: a last date equal to the target date stops too.
PastTargetOrEqual(last, target_date) == last.v <= target_date

\* line 76: the page's last date is before the target date.
PastTarget(last, target_date) == last.v < target_date

\* Mutant of lines 72-73: only the first target record of a page is kept.
ExtendFirst(acc, target_records) ==
    IF target_records = <<>> THEN acc ELSE Append(acc, Head(target_records))

\* lines 72-73: all_records.extend(target_records)
Extend(acc, target_records) == acc \o target_records

\* Mutant of line 79: the offset goes back to the first page after the second.
NextOffsetWrap(off) == (off + limit) % (2 * limit)

\* line 79
NextOffset(off) == off + limit

\* Mutant of line 81: the ceiling is one page further.
OverCeilingLate(off) == off > OffsetCeiling + limit

\* line 81
OverCeiling(off) == off > OffsetCeiling

\* line 88 after the loop is left by `reason`: the fetch returns to line
\* 177 and its frame (offset) is gone.
Return(j, reason) ==
    /\ stop' = [stop EXCEPT ![j] = reason]
    /\ offset' = [offset EXCEPT ![j] = 0]
    /\ pc' = [pc EXCEPT ![j] = "l179"]

\* Mutant of line 49: the loop goes on while max_records is not exceeded.
LoopCondInclusive(j) == Len(all_records[j]) <= max_records[j]

\* line 49: the loop condition.
LoopCond(j) == Len(all_records[j]) < max_records[j]

\* line 49 false: the loop condition ends the loop.
FetchCond(j) ==
    /\ pc[j] = "l49"
    /\ ~LoopCond(j)
    /\ Return(j, "cond")
    /\ UNCHANGED <<jobs, max_records, all_records, df, df_filtered, exc,
                   upstream, dl, resp>>

\* Mutant of lines 84-86: the request failure is not caught in the fetch.
FetchFailRaise(j) ==
    /\ pc[j] = "l49"
    /\ LoopCond(j)
    /\ stop' = [stop EXCEPT ![j] = "failure"]
    /\ offset' = [offset EXCEPT ![j] = 0]
    /\ exc' = [exc EXCEPT ![j] = "RequestException"]
    /\ pc' = [pc EXCEPT ![j] = "l212"]
    /\ UNCHANGED <<jobs, max_records, all_records, df, df_filtered,
                   upstream, dl, resp>>

\* lines 59-60, 84-86: the request fails (transport or HTTP status).
FetchFail(j) ==
    /\ pc[j] = "l49"
    /\ LoopCond(j)
    /\ Return(j, "failure")
    /\ UNCHANGED <<jobs, max_records, all_records, df, df_filtered, exc,
                   upstream, dl, resp>>

\* lines 62-82: the request returns the page `records`.
FetchPage(j, records) ==
    /\ pc[j] = "l49"
    /\ LoopCond(j)
    /\ records \in Serve(offset[j])
    /\ LET target_date == jobs[j].target_date
           last == records[Len(records)].dateparution
       IN  IF records = <<>>
           THEN \* lines 65-66
                /\ Return(j, "empty")
                /\ UNCHANGED <<all_records, exc>>
           ELSE IF last = Null
           THEN \* line 76: None < str raises TypeError, not caught at line 84
                /\ exc' = [exc EXCEPT ![j] = "TypeError"]
                /\ pc' = [pc EXCEPT ![j] = "l212"]
                /\ all_records' = [all_records EXCEPT ![j] = <<>>]
                /\ offset' = [offset EXCEPT ![j] = 0]
                /\ UNCHANGED stop
           ELSE /\ all_records' = [all_records EXCEPT ![j] =
                                     Extend(@, TargetRecords(records, target_date))]
                /\ UNCHANGED exc
                /\ IF PastTarget(last, target_date)
                   THEN \* lines 76-77
                        Return(j, "cutoff")
                   ELSE IF OverCeiling(NextOffset(offset[j]))
                   THEN \* lines 79-82
                        Return(j, "ceiling")
                   ELSE \* line 79
                        /\ offset' = [offset EXCEPT ![j] = NextOffset(@)]
                        /\ UNCHANGED <<stop, pc>>
    /\ UNCHANGED <<jobs, max_records, df, df_filtered, upstream, dl, resp>>

(***************************************************************************)
(* process_extraction, lines 171-214.  The task runs on a worker thread,   *)
(* so every write to the ledger is a step of its own that the routes can   *)
(* interleave with.                                                        *)
(***************************************************************************)
TaskLocalsUnchanged ==
    UNCHANGED <<max_records, all_records, offset, stop, df, df_filtered, exc>>

\* A step that writes one ledger field and moves on.
WriteStep(j, from, key, value, to) ==
    /\ pc[j] = from
    /\ SetField(j, key, value)
    /\ pc' = [pc EXCEPT ![j] = to]
    /\ TaskLocalsUnchanged
    /\ UNCHANGED <<upstream, dl, resp>>

\* Mutant of line 173: the task never records that it is processing.
L173Skip(j) ==
    /\ pc[j] = "l173"
    /\ pc' = [pc EXCEPT ![j] = "l174"]
    /\ TaskLocalsUnchanged
    /\ UNCHANGED <<jobs, upstream, dl, resp>>

L173(j) == WriteStep(j, "l173", "status", "processing", "l174")
L174(j) == WriteStep(j, "l174", "message", MsgFetching, "l49")

\* line 179: the branch on the fetched records.
L179(j) ==
    /\ pc[j] = "l179"
    /\ pc' = [pc EXCEPT ![j] = IF all_records[j] = <<>> THEN "l180" ELSE "l186"]
    /\ TaskLocalsUnchanged
    /\ UNCHANGED <<jobs, upstream, dl, resp>>

\* Mutant of line 180: the no-records branch returns without the status.
L180Skip(j) ==
    /\ pc[j] = "l180"
    /\ pc' = [pc EXCEPT ![j] = "l181"]
    /\ TaskLocalsUnchanged
    /\ UNCHANGED <<jobs, upstream, dl, resp>>

\* lines 180-184: no records.
L180(j) == WriteStep(j, "l180", "status", "completed", "l181")
L181(j) == WriteStep(j, "l181", "message", MsgNoRecords(jobs[j].target_date), "l182")
L182(j) == WriteStep(j, "l182", "total_records", 0, "l183")
L183(j) == WriteStep(j, "l183", "filtered_records", 0, "done")

L186(j) == WriteStep(j, "l186", "total_records", Len(all_records[j]), "l187")
L187(j) == WriteStep(j, "l187", "message", MsgFound(Len(all_records[j])), "l190")

\* line 190
L190(j) ==
    /\ pc[j] = "l190"
    /\ df' = [df EXCEPT ![j] = create_excel_simple(all_records[j])]
    /\ pc' = [pc EXCEPT ![j] = "l193"]
    /\ UNCHANGED <<jobs, max_records, all_records, offset, stop, df_filtered, exc,
                   upstream, dl, resp>>

\* line 193
L193(j) ==
    /\ pc[j] = "l193"
    /\ df_filtered' = [df_filtered EXCEPT ![j] =
                          filter_by_departments(df[j], jobs[j].departments)]
    /\ pc' = [pc EXCEPT ![j] = "l195"]
    /\ UNCHANGED <<jobs, max_records, all_records, offset, stop, df, exc,
                   upstream, dl, resp>>

\* Mutant of line 195: the count of the full DataFrame is stored instead.
L195Total(j) == WriteStep(j, "l195", "filtered_records", Len(df[j]), "l196")

L195(j) == WriteStep(j, "l195", "filtered_records", Len(df_filtered[j]), "l196")
L196(j) == WriteStep(j, "l196", "message", MsgComplete(Len(df_filtered[j])), "l199")
L199(j) == WriteStep(j, "l199", "full_df", Present(df[j]), "l200")
L200(j) == WriteStep(j, "l200", "filtered_df", Present(df_filtered[j]), "l203")

\* lines 203-207
L203(j) ==
    WriteStep(j, "l203", "department_distribution",
              Present(IF Len(df_filtered[j]) > 0 THEN ValueCounts(df_filtered[j]) ELSE <<>>),
              "l209")

L209(j) == WriteStep(j, "l209", "status", "completed", "done")

\* The calls of lines 190, 193 and 204 raise (an allocation or library
\* fault): control passes to the handler of line 211.
FaultPoints == {"l190", "l193", "l203"}

StageFault(j) ==
    /\ pc[j] \in FaultPoints
    /\ exc' = [exc EXCEPT ![j] = "MemoryError"]
    /\ pc' = [pc EXCEPT ![j] = "l212"]
    /\ UNCHANGED <<jobs, max_records, all_records, offset, stop, df, df_filtered,
                   upstream, dl, resp>>

\* Mutant of line 212: the handler only logs.
L212Skip(j) ==
    /\ pc[j] = "l212"
    /\ pc' = [pc EXCEPT ![j] = "l213"]
    /\ TaskLocalsUnchanged
    /\ UNCHANGED <<jobs, upstream, dl, resp>>

\* lines 211-214
L212(j) == WriteStep(j, "l212", "status", "error", "l213")
L213(j) == WriteStep(j, "l213", "message", MsgError(exc[j]), "done")

Fetch(j) ==
    \/ FetchCond(j)
    \/ FetchFail(j)
    \/ \E records \in Serve(offset[j]) : FetchPage(j, records)

Task(j) ==
    \/ L173(j) \/ L174(j) \/ Fetch(j) \/ L179(j)
    \/ L180(j) \/ L181(j) \/ L182(j) \/ L183(j)
    \/ L186(j) \/ L187(j) \/ L190(j) \/ L193(j) \/ L195(j) \/ L196(j)
    \/ L199(j) \/ L200(j) \/ L203(j) \/ L209(j)
    \/ StageFault(j) \/ L212(j) \/ L213(j)

(***************************************************************************)
(* The routes.  They run on the one event-loop thread: a route does not    *)
(* start while a download is between its status check and its read.        *)
(***************************************************************************)
Response(route, j, code, body) == [route |-> route, job |-> j, code |-> code, body |-> body]
NoResponse == Response("none", 0, 0, <<>>)

\* lines 217-243: POST /extract.  uuid4 gives an identifier not in use.
extract_data(j, target_date, max, departments) ==
    /\ dl = Absent
    /\ jobs[j] = NoJob
    /\ jobs' = [jobs EXCEPT ![j] = NewJob(target_date, departments)]
    /\ pc' = [pc EXCEPT ![j] = "l173"]
    /\ max_records' = [max_records EXCEPT ![j] = max]
    /\ resp' = Response("extract", j, 200, [status |-> "started"])
    /\ UNCHANGED <<all_records, offset, stop, df, df_filtered, exc, upstream, dl>>

\* lines 251-258: the body of a status response.
StatusBody(job) ==
    [status |-> job.status,
     message |-> job.message,
     total_records |-> job.total_records,
     filtered_records |-> job.filtered_records,
     department_distribution |->
        IF job.department_distribution = Absent THEN <<>>
        ELSE job.department_distribution[1]]

\* Mutant of line 247: a job that has not begun processing is not found.
get_job_statusHidesStarted(j) ==
    /\ dl = Absent
    /\ resp' = IF jobs[j] = NoJob \/ jobs[j].status = "started"
               THEN Response("status", j, 404, [detail |-> "Job not found"])
               ELSE Response("status", j, 200, StatusBody(jobs[j]))
    /\ UNCHANGED <<jobs, pc, max_records, all_records, offset, stop, df, df_filtered,
                   exc, upstream, dl>>

\* lines 245-258: GET /job/{job_id}
get_job_status(j) ==
    /\ dl = Absent
    /\ resp' = IF jobs[j] = NoJob
               THEN Response("status", j, 404, [detail |-> "Job not found"])
               ELSE Response("status", j, 200, StatusBody(jobs[j]))
    /\ UNCHANGED <<jobs, pc, max_records, all_records, offset, stop, df, df_filtered,
                   exc, upstream, dl>>

DatasetKey(kind) == IF kind = "full" THEN "full_df" ELSE "filtered_df"

\* Mutant of lines 262 / 286: the download only checks that the job exists.
DownloadCheckAnyStatus(j, kind) ==
    /\ dl = Absent
    /\ IF jobs[j] = NoJob
       THEN /\ resp' = Response(kind, j, 404, [detail |-> "Data not available"])
            /\ UNCHANGED dl
       ELSE /\ dl' = Present([job |-> j, kind |-> kind])
            /\ UNCHANGED resp
    /\ UNCHANGED <<jobs, pc, max_records, all_records, offset, stop, df, df_filtered,
                   exc, upstream>>

\* lines 262-263 / 286-287: the status check of a download.
DownloadCheck(j, kind) ==
    /\ dl = Absent
    /\ IF jobs[j] = NoJob \/ jobs[j].status # "completed"
       THEN /\ resp' = Response(kind, j, 404, [detail |-> "Data not available"])
            /\ UNCHANGED dl
       ELSE /\ dl' = Present([job |-> j, kind |-> kind])
            /\ UNCHANGED resp
    /\ UNCHANGED <<jobs, pc, max_records, all_records, offset, stop, df, df_filtered,
                   exc, upstream>>

\* lines 265-282 / 289-306: the dataset is looked up and encoded.
DownloadSend ==
    /\ dl # Absent
    /\ LET j == dl[1].job
           kind == dl[1].kind
           stored == jobs[j][DatasetKey(kind)]
       IN  resp' = IF stored = Absent
                   THEN Response(kind, j, 404,
                                 [detail |-> IF kind = "full" THEN "Full data not available"
                                             ELSE "Filtered data not available"])
                   ELSE Response(kind, j, 200, stored[1])
    /\ dl' = Absent
    /\ UNCHANGED <<jobs, pc, max_records, all_records, offset, stop, df, df_filtered,
                   exc, upstream>>

download_full_data(j) == DownloadCheck(j, "full")
download_filtered_data(j) == DownloadCheck(j, "filtered")

(***************************************************************************)
(* Specification.                                                          *)
(***************************************************************************)
\* The state after the module is loaded (line 39), against the upstreams
\* `ups`, with `ids` the identifiers uuid4 will give.
StartJobs(ids, ups) ==
    /\ jobs = [j \in ids |-> NoJob]
    /\ pc = [j \in ids |-> "none"]
    /\ max_records = [j \in ids |-> 0]
    /\ all_records = [j \in ids |-> <<>>]
    /\ offset = [j \in ids |-> 0]
    /\ stop = [j \in ids |-> "none"]
    /\ df = [j \in ids |-> <<>>]
    /\ df_filtered = [j \in ids |-> <<>>]
    /\ exc = [j \in ids |-> NoExc]
    /\ upstream \in ups
    /\ dl = Absent
    /\ resp = NoResponse

Start(ups) == StartJobs(JobIds, ups)

Init == Start({ShortUpstream})

Submit ==
    \E j \in DOMAIN jobs, target_date \in TargetDates, max \in MaxRecordsArgs,
       departments \in DepartmentsArgs :
        extract_data(j, target_date, max, departments)

Next ==
    \/ Submit
    \/ \E j \in DOMAIN jobs : Task(j)
    \/ \E j \in DOMAIN jobs : get_job_status(j)
    \/ \E j \in DOMAIN jobs : download_full_data(j)
    \/ \E j \in DOMAIN jobs : download_filtered_data(j)
    \/ DownloadSend

Spec == Init /\ [][Next]_vars

\* Submissions and background tasks alone.
NextTask ==
    \/ Submit
    \/ \E j \in DOMAIN jobs : Task(j)

\* The tasks against a fixed catalog sorted by date descending.
InitFetch == Start({[mode |-> "catalog", catalog |-> c] : c \in Catalogs})

SpecFetch == InitFetch /\ [][NextTask]_vars

\* Submissions that leave max_records to its default (line 28).
SubmitFilter ==
    \E j \in DOMAIN jobs, target_date \in TargetDates,
       departments \in FilterDepartmentsArgs :
        extract_data(j, target_date, max_records_default, departments)

NextFilter ==
    \/ SubmitFilter
    \/ \E j \in DOMAIN jobs : Task(j)

\* The tasks against catalogs of target-date records in every code shape.
InitFilter ==
    Start({[mode |-> "catalog", catalog |-> c] : c \in FilterCatalogs \cup ShapeCatalogs})

SpecFilter == InitFilter /\ [][NextFilter]_vars

\* Two jobs in flight, with the routes, against a catalog of one record.
PairCatalogs ==
    {<<[dateparution |-> Str(d), code_departement |-> Str(D92)]>> : d \in TargetDates}

InitPair == StartJobs(PairIds, {[mode |-> "catalog", catalog |-> c] : c \in PairCatalogs})

\* Submissions that leave max_records to its default (line 28).
SubmitPair ==
    \E j \in DOMAIN jobs, target_date \in TargetDates, departments \in DepartmentsArgs :
        extract_data(j, target_date, max_records_default, departments)

NextPair ==
    \/ SubmitPair
    \/ \E j \in DOMAIN jobs : Task(j)
    \/ \E j \in DOMAIN jobs : get_job_status(j)
    \/ \E j \in DOMAIN jobs : download_full_data(j)
    \/ \E j \in DOMAIN jobs : download_filtered_data(j)
    \/ DownloadSend

SpecPair == InitPair /\ [][NextPair]_vars

\* The tasks against an upstream that never runs out of pages.
InitAny == Start({AnyUpstream})

SpecAny == InitAny /\ [][NextTask]_vars

\* The background tasks are scheduled, and every page request returns or
\* fails: each task keeps taking steps while it has one to take.
FairSpec == SpecAny /\ \A j \in JobIds : WF_vars(Task(j))

(***************************************************************************)
(* Properties.                                                             *)
(***************************************************************************)
Downloads == {"full", "filtered"}

\* The rows of a stored dataset; a dataset that is not stored has none.
Rows(stored) == IF stored = Absent THEN 0 ELSE Len(stored[1])

\* The job's task has returned from the no-records branch.
ZeroEnded(j) == pc[j] = "done" /\ exc[j] = NoExc /\ all_records[j] = <<>>

\* The step answers a download of job j after its status check passed.
DownloadAnswered(j) == dl # Absent /\ dl[1].job = j /\ dl' = Absent

StatusMoves ==
    {<<"none", "started">>, <<"started", "processing">>,
     <<"processing", "completed">>, <<"processing", "error">>}

\* C1: the status of a job only moves started -> processing -> completed
\* or started -> processing -> error: no step moves it backward, out of
\* completed or error, or into completed or error from anything but
\* processing.
C1_StatusMonotonic ==
    [][\A j \in JobIds :
          jobs'[j].status # jobs[j].status
              => <<jobs[j].status, jobs'[j].status>> \in StatusMoves]_vars

\* C1 witness: a job has completed by the no-records branch.
C1_Witness ==
    \E j \in JobIds : jobs[j].status = "completed" /\ jobs[j].full_df = Absent
                      /\ pc[j] = "done"

\* C2 as stated: a job whose fetch yields no record ends completed with
\* zero counts, and a download of it answered after that succeeds with an
\* empty dataset.
C2_ZeroDownloadsSucceed ==
    [][\A j \in JobIds :
          /\ ZeroEnded(j)' =>
                /\ jobs'[j].status = "completed"
                /\ jobs'[j].total_records = 0
                /\ jobs'[j].filtered_records = 0
          /\ (ZeroEnded(j) /\ DownloadAnswered(j)) =>
                (resp'.code = 200 /\ resp'.body = <<>>)]_vars

\* C2 amended: a job whose fetch yields no record ends completed with zero
\* counts and no stored dataset, and a download of it answered after that
\* is a not-found error.
C2_ZeroDownloadsNotFound ==
    [][\A j \in JobIds :
          /\ ZeroEnded(j)' =>
                /\ jobs'[j].status = "completed"
                /\ jobs'[j].total_records = 0
                /\ jobs'[j].filtered_records = 0
                /\ jobs'[j].full_df = Absent
                /\ jobs'[j].filtered_df = Absent
          /\ (ZeroEnded(j) /\ DownloadAnswered(j)) =>
                (resp'.code = 404 /\ resp'.route = dl[1].kind /\ resp'.job = j)]_vars

\* C2 witness: a download of an ended no-records job has been answered.
C2_Witness ==
    /\ resp.route \in Downloads
    /\ resp.code = 404
    /\ resp.body.detail \in {"Full data not available", "Filtered data not available"}
    /\ ZeroEnded(resp.job)

\* C3: once the status of a job is completed or error, no field of its
\* entry is written again.
C3_TerminalEntryFrozen ==
    [][\A j \in JobIds : jobs[j].status \in Terminal => jobs'[j] = jobs[j]]_vars

\* C4: a download succeeds only for a job whose status is completed, and
\* what it returns is the dataset the task built, which stays the stored
\* one.
C4_DownloadOnlyCompleted ==
    \A j \in JobIds :
        (resp.route \in Downloads /\ resp.job = j /\ resp.code = 200) =>
            /\ jobs[j].status = "completed"
            /\ pc[j] = "done"
            /\ jobs[j][DatasetKey(resp.route)] = Present(resp.body)
            /\ resp.body = IF resp.route = "full" THEN df[j] ELSE df_filtered[j]

\* C4 witness: a full download has returned a dataset with rows.
C4_Witness == resp.route = "full" /\ resp.code = 200 /\ resp.body # <<>>

\* C5: for a completed job total_records and filtered_records are the row
\* counts of the stored full and filtered datasets; filtered_records never
\* exceeds total_records, in the ledger and in every status response.
C5_CountsMatchDatasets ==
    /\ \A j \in JobIds :
          /\ jobs[j].status = "completed" =>
                /\ jobs[j].total_records = Rows(jobs[j].full_df)
                /\ jobs[j].filtered_records = Rows(jobs[j].filtered_df)
          /\ jobs[j] # NoJob => jobs[j].filtered_records <= jobs[j].total_records
    /\ (resp.route = "status" /\ resp.code = 200) =>
          resp.body.filtered_records <= resp.body.total_records

\* C5 witness: a completed job kept some rows and dropped others.
C5_Witness ==
    \E j \in JobIds :
        /\ jobs[j].status = "completed"
        /\ jobs[j].filtered_records >= 1
        /\ jobs[j].filtered_records < jobs[j].total_records

\* C6: every submitted job eventually has status completed or error.
C6_JobsTerminate ==
    \A j \in JobIds : (jobs[j] # NoJob) ~> (jobs[j].status \in Terminal)

\* C6 witness: a job whose fetch ran up to the offset ceiling has ended.
C6_Witness ==
    \E j \in JobIds : stop[j] = "ceiling" /\ jobs[j].status \in Terminal

\* C7: once a stage has raised, the task is in its handler or has
\* returned, the job is never completed, it ends with status error and the
\* message of the fault, and no download of it succeeds.
C7_FaultEndsInError ==
    \A j \in JobIds :
        exc[j] # NoExc =>
            /\ pc[j] \in {"l212", "l213", "done"}
            /\ jobs[j].status # "completed"
            /\ pc[j] \in {"l213", "done"} => jobs[j].status = "error"
            /\ pc[j] = "done" => jobs[j].message = MsgError(exc[j])
            /\ ~(resp.route \in Downloads /\ resp.job = j /\ resp.code = 200)

\* C7 witness: a fault after the datasets were stored (line 204) has ended
\* the job in error.
C7_Witness ==
    \E j \in JobIds :
        /\ pc[j] = "done"
        /\ exc[j] = "MemoryError"
        /\ jobs[j].full_df # Absent
        /\ jobs[j].status = "error"

\* The records of the first n pages of the catalog.
Prefix(n) == SubSeq(upstream.catalog, 1, Min(n * WindowLen, Len(upstream.catalog)))

\* The date of the last record of the k-th page of the catalog.
LastDate(k) == PageOf(upstream.catalog, k)[Len(PageOf(upstream.catalog, k))].dateparution

\* The target-date records of a catalog prefix, for job j.
TargetOf(j, records) == TargetRecords(records, jobs[j].target_date)

\* C8: the step in which a page request fails ends the fetch with the
\* target-date records of the pages before it and raises nothing; after
\* it no further request is made, the records are kept, the job's status
\* never becomes error unless a later stage raises, and without such a
\* fault the job ends completed with the count of those records.
C8_FailureKeepsPartial ==
    [][\A j \in JobIds :
          /\ (stop[j] # "failure" /\ stop'[j] = "failure") =>
                /\ all_records'[j] = TargetOf(j, Prefix(PageIndex(offset[j]) - 1))
                /\ pc'[j] = "l179"
                /\ exc'[j] = NoExc
          /\ stop[j] = "failure" =>
                /\ pc'[j] # "l49"
                /\ all_records'[j] = all_records[j]
                /\ exc'[j] \in {NoExc, "MemoryError"}
                /\ exc'[j] = NoExc => jobs'[j].status # "error"
                /\ (pc'[j] = "done" /\ exc'[j] = NoExc) =>
                      /\ jobs'[j].status = "completed"
                      /\ jobs'[j].total_records = Len(all_records[j])]_vars

\* C8 witness: a job whose second or later request failed has completed
\* with the records fetched before.
C8_Witness ==
    \E j \in JobIds :
        /\ stop[j] = "failure"
        /\ pc[j] = "done"
        /\ jobs[j].status = "completed"
        /\ jobs[j].total_records >= 1

\* The pages the loop has gone through after a step taken at line 49.
Seen(j) ==
    IF stop'[j] \in {"failure", "cond"} THEN PageIndex(offset[j]) - 1
    ELSE PageIndex(offset[j])

\* C9: after every iteration the records accumulated are the target-date
\* records of the pages gone through, in catalog order; and when the
\* catalog is sorted by date descending, no request failed, and the
\* target-date records are fewer than max_records and within the offset
\* ceiling, the fetch returns all the target-date records of the catalog.
C9_FetchExact ==
    [][\A j \in JobIds :
          (pc[j] = "l49" /\ pc'[j] \in {"l49", "l179"}) =>
              /\ \A i \in 1..Len(all_records'[j]) :
                    all_records'[j][i].dateparution = Str(jobs[j].target_date)
              /\ all_records'[j] = TargetOf(j, Prefix(Seen(j)))
              /\ ( /\ pc'[j] = "l179"
                   /\ SortedDesc(upstream.catalog)
                   /\ stop'[j] # "failure"
                   /\ Len(TargetOf(j, upstream.catalog)) < max_records[j]
                   /\ Len(upstream.catalog) <= WindowLen * PageIndex(OffsetCeiling) )
                 => all_records'[j] = TargetOf(j, upstream.catalog)]_vars

\* C9 witness: a fetch that went past the first page has returned all the
\* target-date records of the catalog, fewer than max_records.
C9_Witness ==
    \E j \in JobIds :
        /\ pc[j] = "l179"
        /\ stop[j] = "empty"
        /\ all_records[j] = TargetOf(j, upstream.catalog)
        /\ all_records[j] # TargetOf(j, Prefix(1))
        /\ Len(all_records[j]) < max_records[j]

\* C10: a request is made only when every page before it ended on or
\* after the target date; a page that ends before the target date ends
\* the fetch, whatever the number of records accumulated; and the fetch is
\* ended by the date cutoff only on such a page.
C10_DateCutoff ==
    [][\A j \in JobIds :
          pc[j] = "l49" =>
              /\ \A k \in 1..(PageIndex(offset[j]) - 1) :
                    /\ PageOf(upstream.catalog, k) # <<>>
                    /\ LastDate(k).v >= jobs[j].target_date
              /\ stop'[j] = "cutoff" =>
                    /\ PageOf(upstream.catalog, PageIndex(offset[j])) # <<>>
                    /\ LastDate(PageIndex(offset[j])).v < jobs[j].target_date
              /\ ( /\ stop'[j] \notin {"failure", "cond"}
                   /\ PageOf(upstream.catalog, PageIndex(offset[j])) # <<>>
                   /\ LastDate(PageIndex(offset[j])).v < jobs[j].target_date )
                 => (stop'[j] = "cutoff" /\ pc'[j] = "l179")]_vars

\* C10 witness: the cutoff ended a fetch on the first page, with fewer
\* than max_records records and a page left to request.
C10_Witness ==
    \E j \in JobIds :
        /\ pc[j] = "l179"
        /\ stop[j] = "cutoff"
        /\ Len(all_records[j]) < max_records[j]
        /\ Len(upstream.catalog) > WindowLen
        /\ LastDate(1).v < jobs[j].target_date

\* The members of a set of indices, in increasing order.
Ascending(K) ==
    [n \in 1..Cardinality(K) |-> CHOOSE i \in K : Cardinality({m \in K : m < i}) = n - 1]

\* A filtered row without its matched-code column.
Original(row) ==
    [dateparution |-> row.dateparution, code_departement |-> row.code_departement]

\* The step of line 193 for job j.
Filters(j) == pc[j] = "l193" /\ pc'[j] = "l195"

\* C11: the filtered dataset is the full dataset's rows at a strictly
\* increasing sequence of indices: each filtered row is a copy of the row
\* at its index and carries the matched code of that row, and the full
\* dataset is left as it was.
C11_FilteredIsSubsequence ==
    [][\A j \in JobIds :
          Filters(j) =>
              /\ df'[j] = df[j]
              /\ \E K \in SUBSET (1..Len(df[j])) :
                    /\ Len(df_filtered'[j]) = Cardinality(K)
                    /\ \A n \in 1..Cardinality(K) :
                          /\ Original(df_filtered'[j][n]) = df[j][Ascending(K)[n]]
                          /\ Present(df_filtered'[j][n].code_departement_trouve)
                                = DepartementTrouve(df[j][Ascending(K)[n]],
                                                    jobs[j].departments)]_vars

\* C11 witness: two of three rows were kept, with different matched codes.
C11_Witness ==
    \E j \in JobIds :
        /\ pc[j] = "l195"
        /\ Len(df[j]) = 3
        /\ Len(df_filtered[j]) = 2
        /\ df_filtered[j][1].code_departement_trouve
              # df_filtered[j][2].code_departement_trouve

\* The tokens line 148 scans for a row: none for a row skipped at line 129.
Decoded(row) ==
    IF row.code_departement.t = "nan" \/ row.code_departement = Str(<<>>)
    THEN <<>>
    ELSE DepList(row.code_departement)

\* The indices of the rows with a token in the target set.
Matching(rows, target) ==
    {i \in 1..Len(rows) : \E k \in 1..Len(Decoded(rows[i])) : Decoded(rows[i])[k] \in target}

\* C12: the rows kept are exactly the rows with a decoded token in the
\* target set, and the matched code of a kept row is its first token, in
\* token order, that is in the target set.
C12_FirstTokenMatch ==
    [][\A j \in JobIds :
          Filters(j) =>
              LET target == jobs[j].departments
                  kept == Ascending(Matching(df[j], target))
              IN  /\ Len(df_filtered'[j]) = Len(kept)
                  /\ \A n \in 1..Len(kept) :
                        LET toks == Decoded(df[j][kept[n]])
                            code == df_filtered'[j][n].code_departement_trouve
                        IN  /\ Original(df_filtered'[j][n]) = df[j][kept[n]]
                            /\ \E k \in 1..Len(toks) :
                                  /\ toks[k] = code
                                  /\ code \in target
                                  /\ \A m \in 1..(k - 1) : toks[m] \notin target]_vars

\* C12 witness: codes ["92", "75"] against departments 75 and 92 recorded 92.
C12_Witness ==
    \E j \in JobIds :
        /\ pc[j] = "l195"
        /\ jobs[j].departments = {D75, D92}
        /\ \E n \in 1..Len(df_filtered[j]) :
              /\ df_filtered[j][n].code_departement = Str(JsonDumps(<<D92, D75>>))
              /\ Decoded(df_filtered[j][n]) = <<D92, D75>>
              /\ df_filtered[j][n].code_departement_trouve = D92

\* The codes of a list that are not the empty text.
NonEmpty(toks) == SelectSeq(toks, LAMBDA t : t # <<>>)

\* The records hold the codes `toks`, the i-th in the i-th shape.
ShapesOf(records, toks) ==
    /\ records # <<>>
    /\ Len(records) <= Len(ShapeKinds)
    /\ \A i \in 1..Len(records) :
          records[i].code_departement = Shape(toks, ShapeKinds[i])

\* C13: when the fetched records hold the same codes in different shapes
\* (JSON list, quoted list text, bare and blank-padded comma-separated
\* text), every row decodes to those codes without the empty ones, and the
\* matcher keeps all the rows with the same matched code or none of them.
C13_ShapesDecodeAlike ==
    [][\A j \in JobIds : \A toks \in TokenSeqs :
          (Filters(j) /\ ShapesOf(all_records[j], toks)) =>
              /\ \A i \in 1..Len(df[j]) :
                    DepList(df[j][i].code_departement) = NonEmpty(toks)
              /\ Len(df_filtered'[j]) \in {0, Len(df[j])}
              /\ Len(df_filtered'[j]) # 0 <=>
                    \E k \in 1..Len(toks) : toks[k] # <<>> /\ toks[k] \in jobs[j].departments
              /\ \A n \in 1..Len(df_filtered'[j]) :
                    df_filtered'[j][n].code_departement_trouve
                        = df_filtered'[j][1].code_departement_trouve]_vars

\* C13 witness: the codes "", "92" were fetched in all the shapes and every
\* row was kept.
C13_Witness ==
    \E j \in JobIds :
        /\ pc[j] = "l195"
        /\ Len(all_records[j]) = Len(ShapeKinds)
        /\ ShapesOf(all_records[j], << <<>>, D92 >>)
        /\ Len(df_filtered[j]) = Len(ShapeKinds)

\* A department-code field that is null, missing or the empty text.
NoCode(code_departement) == code_departement \in {Null, Missing, Str(<<>>)}

\* The cell such a field becomes in the full dataset.
NoCodeCell(cell) == cell \in {NaN, Str(<<>>)}

\* C14: a record whose department-code field is null, missing or empty is
\* a row of the full dataset and counts in total_records, and is never a
\* row of the filtered dataset, whatever the target set is.
C14_NoCodeExcluded ==
    [][\A j \in JobIds :
          Filters(j) =>
              /\ jobs[j].total_records = Len(all_records[j])
              /\ Len(df[j]) = Len(all_records[j])
              /\ \A i \in 1..Len(df[j]) :
                    NoCode(all_records[j][i].code_departement)
                        <=> NoCodeCell(df[j][i].code_departement)
              /\ \A n \in 1..Len(df_filtered'[j]) :
                    ~NoCodeCell(df_filtered'[j][n].code_departement)
              /\ Len(df_filtered'[j])
                    <= Cardinality({i \in 1..Len(df[j]) :
                                      ~NoCode(all_records[j][i].code_departement)})]_vars

\* C14 witness: a null, a missing and an empty code against a target set
\* that holds the empty text: three records counted, none kept.
C14_Witness ==
    \E j \in JobIds :
        /\ pc[j] = "l195"
        /\ <<>> \in jobs[j].departments
        /\ jobs[j].total_records = 3
        /\ {all_records[j][i].code_departement : i \in 1..3} = {Null, Missing, Str(<<>>)}
        /\ df_filtered[j] = <<>>

\* The sum of the values of f over the keys in S.
RECURSIVE SumOver(_, _)
SumOver(f, S) ==
    IF S = {} THEN 0
    ELSE LET c == CHOOSE x \in S : TRUE
         IN  f[c] + SumOver(f, S \ {c})

\* The department distribution of a job as a status query reports it.
Distribution(j) == StatusBody(jobs[j]).department_distribution

\* The matched codes of the stored filtered dataset, none if none is stored.
MatchedCodes(j) ==
    IF jobs[j].filtered_df = Absent THEN <<>>
    ELSE [n \in 1..Len(jobs[j].filtered_df[1]) |->
             jobs[j].filtered_df[1][n].code_departement_trouve]

\* C15: for a completed job the department distribution has exactly the
\* matched codes of the filtered dataset as keys, each with the number of
\* filtered rows that carry it; the keys are requested departments, the
\* counts sum to filtered_records, and the distribution is empty exactly
\* when filtered_records is 0.
C15_DistributionCounts ==
    \A j \in JobIds :
        jobs[j].status = "completed" =>
            LET dist == Distribution(j)
                codes == MatchedCodes(j)
            IN  /\ DOMAIN dist = {codes[n] : n \in 1..Len(codes)}
                /\ \A c \in DOMAIN dist :
                      dist[c] = Cardinality({n \in 1..Len(codes) : codes[n] = c})
                /\ DOMAIN dist \subseteq jobs[j].departments
                /\ SumOver(dist, DOMAIN dist) = jobs[j].filtered_records
                /\ (DOMAIN dist = {}) <=> (jobs[j].filtered_records = 0)

\* C15 witness: codes "['75','92']", "92" and null against department 75
\* gave total 3, filtered 1 and distribution {"75": 1}.
C15_Witness ==
    \E j \in JobIds :
        /\ jobs[j].status = "completed"
        /\ jobs[j].departments = {D75}
        /\ Len(all_records[j]) = 3
        /\ [i \in 1..3 |-> all_records[j][i].code_departement]
              = <<Shape(<<D75, D92>>, "single"), Str(D92), Null>>
        /\ jobs[j].total_records = 3
        /\ jobs[j].filtered_records = 1
        /\ Distribution(j) = (D75 :> 1)

Queries == {"status", "full", "filtered"}

\* C16: a step that changes the entry of job j changes no other entry and
\* moves no other task, and is either the submission that creates the
\* entry or a step of j's own task on an existing entry, which stays; a
\* status or download query changes no entry.
C16_OwnEntryOnly ==
    [][/\ \A j \in DOMAIN jobs :
             jobs'[j] # jobs[j] =>
                 /\ \A k \in DOMAIN jobs \ {j} : jobs'[k] = jobs[k] /\ pc'[k] = pc[k]
                 /\ IF jobs[j] = NoJob
                    THEN /\ jobs'[j].status = "started"
                         /\ resp'.route = "extract" /\ resp'.job = j
                         /\ pc[j] = "none"
                    ELSE /\ jobs'[j] # NoJob
                         /\ pc[j] \notin {"none", "done"}
                         /\ pc'[j] # pc[j]
                         /\ resp' = resp /\ dl' = dl
       /\ (dl' # dl \/ (resp' # resp /\ resp'.route \in Queries)) => jobs' = jobs]_vars

\* C16 witness: one job has completed while the other is being processed,
\* and a status query of the other has been answered.
C16_Witness ==
    \E j \in DOMAIN jobs, k \in DOMAIN jobs :
        /\ j # k
        /\ jobs[j].status = "completed"
        /\ jobs[k].status = "processing"
        /\ resp.route = "status" /\ resp.job = k /\ resp.code = 200
        /\ resp.body.status = "processing"

\* The identifier j has been returned by a submission (its task is queued,
\* running or done).
Returned(j) == pc[j] # "none"

\* The step answers a route of the kind `route` for job j.
Answers(route, j) == resp' # resp /\ resp'.route = route /\ resp'.job = j

\* C17: the submission that returns an identifier has created its entry,
\* with status started and zero counts, before its task has taken a step;
\* an entry is never removed; and a status query is answered not-found
\* exactly when its identifier was never returned by a submission.
C17_StatusFoundIffSubmitted ==
    [][\A j \in JobIds :
          /\ jobs[j] # NoJob => jobs'[j] # NoJob
          /\ Returned(j) => (Returned(j)' /\ jobs[j] # NoJob)
          /\ Answers("extract", j) =>
                /\ ~Returned(j)
                /\ resp'.code = 200
                /\ jobs'[j].status = "started"
                /\ jobs'[j].total_records = 0
                /\ jobs'[j].filtered_records = 0
                /\ pc'[j] = "l173"
          /\ Answers("status", j) =>
                /\ resp'.code \in {200, 404}
                /\ resp'.code = 404 <=> ~Returned(j)
                /\ resp'.code = 200 => resp'.body = StatusBody(jobs[j])]_vars

\* C17 witness: a status query of a submitted job was answered before its
\* task ran.
C17_Witness ==
    \E j \in JobIds :
        /\ pc[j] = "l173"
        /\ resp.route = "status" /\ resp.job = j /\ resp.code = 200
        /\ resp.body.status = "started"
        /\ resp.body.total_records = 0

\* The page requests one fetch can issue: offsets 0, limit, ..., OffsetCeiling.
MaxRequests == (OffsetCeiling \div limit) + 1

\* C18: at every iteration of the fetch the offset is a multiple of the
\* page size not above the ceiling, so the request is at most the 101st;
\* an iteration that stays in the loop has issued a request and raises the
\* offset by exactly the page size, and every other iteration ends the
\* fetch, whatever the upstream answers.
C18_FetchBounded ==
    [][\A j \in JobIds :
          pc[j] = "l49" =>
              /\ offset[j] % limit = 0
              /\ offset[j] >= 0 /\ offset[j] <= OffsetCeiling
              /\ PageIndex(offset[j]) <= MaxRequests
              /\ MaxRequests = 101
              /\ IF pc'[j] = "l49"
                 THEN offset'[j] = offset[j] + limit
                 ELSE pc'[j] \in {"l179", "l212"}]_vars

\* C18 witness: a fetch is about to issue its last possible request, at
\* the offset ceiling, with max_records not reached.
C18_Witness ==
    \E j \in JobIds :
        /\ pc[j] = "l49"
        /\ offset[j] = OffsetCeiling
        /\ Len(all_records[j]) < max_records[j]

\* The page the catalog serves to the request of job j's current iteration.
CurrentPage(j) == PageOf(upstream.catalog, PageIndex(offset[j]))

\* C19: an iteration issues a request exactly when fewer than max_records
\* records are accumulated; it goes on to another iteration exactly when
\* the request returned a page that is not empty, does not end before the
\* target date and leaves the offset within the ceiling; and a returned
\* page adds all its target-date records, whatever max_records is.
C19_LoopCondition ==
    [][\A j \in JobIds :
          pc[j] = "l49" =>
              LET requested == stop'[j] # "cond"
                  returned == requested /\ stop'[j] # "failure"
              IN  /\ requested <=> Len(all_records[j]) < max_records[j]
                  /\ ~requested => (pc'[j] = "l179" /\ all_records'[j] = all_records[j])
                  /\ returned =>
                        all_records'[j] = all_records[j] \o TargetOf(j, CurrentPage(j))
                  /\ pc'[j] = "l49" <=>
                        /\ returned
                        /\ CurrentPage(j) # <<>>
                        /\ LastDate(PageIndex(offset[j])).v >= jobs[j].target_date
                        /\ offset[j] + limit <= OffsetCeiling]_vars

\* C19 witness: a fetch has returned more records than max_records.
C19_Witness ==
    \E j \in JobIds :
        /\ pc[j] = "l179"
        /\ max_records[j] >= 1
        /\ Len(all_records[j]) > max_records[j]

\* C20: with pages of at most WindowLen records (the page size of the
\* catalogs, not above `limit`), a fetch with max_records >= 1 returns
\* fewer than max_records + WindowLen records; with max_records <= 0 it
\* returns at its first iteration without a request and with no record,
\* and the job ends completed with zero records.
C20_CountBelowCap ==
    [][\A j \in JobIds :
          /\ WindowLen <= limit
          /\ (pc[j] = "l49" /\ max_records[j] >= 1) =>
                /\ Len(CurrentPage(j)) <= WindowLen
                /\ Len(all_records'[j]) < max_records[j] + WindowLen
          /\ (pc[j] = "l49" /\ max_records[j] <= 0) =>
                /\ offset[j] = 0
                /\ stop'[j] = "cond"
                /\ pc'[j] = "l179"
                /\ all_records'[j] = <<>>
          /\ (Returned(j) /\ max_records[j] <= 0) =>
                /\ all_records'[j] = <<>>
                /\ exc'[j] = NoExc
                /\ jobs'[j].status # "error"
                /\ jobs'[j].total_records = 0
                /\ pc'[j] = "done" => jobs'[j].status = "completed"]_vars

\* C20 witness: a fetch with max_records >= 1 has returned one record
\* fewer than max_records plus a page.
C20_Witness ==
    \E j \in JobIds :
        /\ pc[j] = "l179"
        /\ max_records[j] >= 1
        /\ Len(all_records[j]) = max_records[j] + WindowLen - 1

====
